---- MODULE Spec2Model ----
(***************************************************************************)
(* The three programs of the repository, each as a state machine:          *)
(*  - the crossword CSP solver of src/crossword/generate.py                *)
(*    (CrosswordCreator): node consistency, AC-3 and backtracking search.  *)
(*    The Crossword/Variable classes (crossword.py) are not part of src/   *)
(*    and are modelled from sections 3, 4.1 and 4.2 of the specification;  *)
(*  - the Minesweeper knowledge base of src/minesweeper/minesweeper.py     *)
(*    (Sentence, MinesweeperAI.add_knowledge);                             *)
(*  - the tic-tac-toe minimax player of src/tictactoe/tictactoe.py.        *)
(* While one program runs, the variables of the other two stay idle.       *)
(***************************************************************************)
EXTENDS Integers, Sequences, FiniteSets, TLC

VARIABLES
    crossword,      \* self.crossword: [structure, words, variables, overlaps]
    domains,        \* self.domains: variable -> set of words
    pc,             \* position inside solve()
    arcs,           \* the worklist of ac3 (a list of (x, y) pairs)
    ac3_return,     \* value returned by ac3: "pending", "True" or "False"
    ac3_exit,       \* return statement ac3 left through: "pending", "emptied", "exhausted"
    stack,          \* activation records of backtrack, outermost first
    call,           \* argument of the backtrack call being entered
    ret,            \* value returned by the backtrack call that just returned
    result,         \* value returned by solve()
    searched,       \* whether backtrack has been called
    pass,           \* how many times node consistency + ac3 have been started
    first_pass,     \* how the first pass ended: [domains, exit]
    previous,       \* an earlier run of solve() on the same crossword: [done, result]
    revision,       \* the last direct call of revise: [called, x, y, before, returned]
    checked,        \* the last direct call of consistent: [called, assignment, returned]
    game,           \* the Minesweeper board: [mines]
    ai,             \* the MinesweeperAI: [moves_made, mines, safes, knowledge]
    calls,          \* number of add_knowledge calls made
    board,          \* the tic-tac-toe board
    move            \* the value minimax returned for board

vars == <<crossword, domains, pc, arcs, ac3_return, ac3_exit, stack, call, ret,
          result, searched, pass, first_pass, previous, revision, checked, game, ai,
          calls, board, move>>

---------------------------------------------------------------------------
(* Bounds and input sets *)

MaxWords == 4

Letters == {"a", "b"}

\* Minesweeper(height, width, mines): the board played on
BoardHeight == 2

BoardWidth == 4

Mines == 2

\* the number of add_knowledge calls followed
MaxCalls == 2

\* minimax is asked about the boards with at most this many empty cells
MaxEmpty == 7

ACROSS == "across"

DOWN == "down"

\* the words a vocabulary is drawn from: every two-letter word, and four
\* three-letter words that differ in their first, middle and last letters
WordPool ==
    [1..2 -> Letters]
        \cup {<<"a", "b", "a">>, <<"a", "b", "b">>, <<"b", "a", "b">>, <<"b", "a", "a">>}

Vocabularies == {W \in SUBSET WordPool : Cardinality(W) <= MaxWords}

\* one across slot of three cells
StructLine == {<<0, 0>>, <<0, 1>>, <<0, 2>>}

\* an across slot of length 3 and a down slot of length 2 crossing at the end
StructCorner == {<<0, 0>>, <<0, 1>>, <<0, 2>>, <<1, 2>>}

\* an across and a down slot of length 3 crossing in the middle
StructPlus == {<<1, 0>>, <<1, 1>>, <<1, 2>>, <<0, 1>>, <<2, 1>>}

\* across(2) - down(3) - across(2): a chain of three slots
StructChain == {<<0, 0>>, <<0, 1>>, <<1, 1>>, <<2, 1>>, <<2, 2>>}

\* two across slots of length 2 that do not cross
StructPair == {<<0, 0>>, <<0, 1>>, <<2, 0>>, <<2, 1>>}

\* across(2) - down(3) - across(3): a chain whose end slots differ in length
StructStep == {<<0, 0>>, <<0, 1>>, <<1, 1>>, <<2, 1>>, <<2, 2>>, <<2, 3>>}

Structures ==
    {StructLine, StructCorner, StructPlus, StructChain, StructPair, StructStep}

---------------------------------------------------------------------------
(* Crossword and Variable (crossword.py) *)

Variable(i, j, direction, length) ==
    [i |-> i, j |-> j, direction |-> direction, length |-> length]

\* the k-th cell (from 0) of a run starting at (i, j)
CellAt(i, j, direction, k) ==
    IF direction = DOWN THEN <<i + k, j>> ELSE <<i, j + k>>

\* Variable.cells: the cells a variable covers, in order
Cells(v) == [k \in 1..v.length |-> CellAt(v.i, v.j, v.direction, k - 1)]

StartsRun(structure, i, j, direction) ==
    /\ <<i, j>> \in structure
    /\ CellAt(i, j, direction, -1) \notin structure

RunLength(structure, i, j, direction) ==
    CHOOSE k \in 1..Cardinality(structure) :
        /\ \A m \in 0..(k - 1) : CellAt(i, j, direction, m) \in structure
        /\ CellAt(i, j, direction, k) \notin structure

\* the maximal horizontal and vertical runs of length >= 2
VariablesOf(structure) ==
    { Variable(p[1][1], p[1][2], p[2], RunLength(structure, p[1][1], p[1][2], p[2])) :
        p \in { q \in structure \X {ACROSS, DOWN} :
                  /\ StartsRun(structure, q[1][1], q[1][2], q[2])
                  /\ RunLength(structure, q[1][1], q[1][2], q[2]) >= 2 } }

\* the value recorded for two variables that do not cross
NoOverlap == <<>>

\* list.index, counted from 0
IndexOf(seq, e) == (CHOOSE k \in 1..Len(seq) : seq[k] = e) - 1

CellSet(v) == {Cells(v)[k] : k \in 1..v.length}

OverlapOf(v1, v2) ==
    LET common == CellSet(v1) \cap CellSet(v2)
    IN  IF common = {} THEN NoOverlap
        ELSE LET c == CHOOSE c \in common : TRUE
             IN  <<IndexOf(Cells(v1), c), IndexOf(Cells(v2), c)>>

OverlapsOf(variables) ==
    [p \in {q \in variables \X variables : q[1] # q[2]} |-> OverlapOf(p[1], p[2])]

Crossword(structure, words) ==
    [structure |-> structure,
     words     |-> words,
     variables |-> VariablesOf(structure),
     overlaps  |-> OverlapsOf(VariablesOf(structure))]

\* Crossword.neighbors
Neighbors(cw, var) ==
    {v \in cw.variables : v # var /\ cw.overlaps[<<v, var>>] # NoOverlap}

---------------------------------------------------------------------------
(* Python values *)

RECURSIVE Perms(_)
\* the lists a set can yield when iterated (set iteration order is arbitrary)
Perms(S) ==
    IF S = {} THEN {<<>>}
    ELSE UNION {{<<e>> \o p : p \in Perms(S \ {e})} : e \in S}

\* word[k] with k counted from 0; out of range raises IndexError
InRange(word, k) == k < Len(word)

\* a dict as its items in insertion order
Keys(assignment) == {assignment[k][1] : k \in 1..Len(assignment)}

Get(assignment, variable) ==
    assignment[CHOOSE k \in 1..Len(assignment) : assignment[k][1] = variable][2]

\* variant: the copy is made but the candidate is not written into it
ExtendNothing(assignment, variable, value) == assignment

\* copy_assignment = assignment.copy(); copy_assignment[variable] = value
Extend(assignment, variable, value) ==
    IF variable \in Keys(assignment)
    THEN [k \in 1..Len(assignment) |->
            IF assignment[k][1] = variable THEN <<variable, value>> ELSE assignment[k]]
    ELSE Append(assignment, <<variable, value>>)

\* select_unassigned_variable, line 306: chosen_var = None
NoVariable == Variable(-1, -1, "none", 0)

\* None or an assignment, as returned by backtrack and solve
None == [isNone |-> TRUE, items |-> <<>>]

Some(assignment) == [isNone |-> FALSE, items |-> assignment]

---------------------------------------------------------------------------
(* The other programs of the repository, when they are not running *)

\* no Minesweeper game is being played
MinesweeperIdle ==
    /\ game = [mines |-> {}]
    /\ ai = [moves_made |-> {}, mines |-> {}, safes |-> {}, knowledge |-> <<>>]
    /\ calls = 0

\* minimax has not been asked about the current board
NoMove == [asked |-> FALSE, isNone |-> FALSE, action |-> <<>>]

\* no tic-tac-toe game is being played
TicTacToeIdle ==
    /\ board = <<>>
    /\ move = NoMove

---------------------------------------------------------------------------
(* CrosswordCreator: construction, node consistency, revise, ac3 *)

\* __init__: every variable starts with a copy of the whole vocabulary
InitialDomains(cw) == [v \in cw.variables |-> cw.words]

\* variant: only the words that are too long are dropped
NodeConsistentDomainTooLong(variable, domain) ==
    domain \ {word \in domain : variable.length < Len(word)}

\* enforce_node_consistency, for one variable: drop the words of another length
NodeConsistentDomain(variable, domain) ==
    domain \ {word \in domain : variable.length # Len(word)}

\* revise, line 147: word_x[letterx] == word_y[lettery]
Agree(word_x, letterx, word_y, lettery) ==
    word_x[letterx + 1] = word_y[lettery + 1]

\* revise, line 147 raises IndexError on this pair of words
Raises(word_x, letterx, word_y, lettery) ==
    ~InRange(word_x, letterx) \/ ~InRange(word_y, lettery)

\* variant: a word of x is matched against the whole vocabulary
RemoveValuesVocabulary(cw, doms, x, y) ==
    LET overlap == cw.overlaps[<<x, y>>]
    IN  IF overlap = NoOverlap THEN {}
        ELSE {word_x \in doms[x] :
                ~ \E word_y \in cw.words :
                     /\ ~Raises(word_x, overlap[1], word_y, overlap[2])
                     /\ Agree(word_x, overlap[1], word_y, overlap[2])}

\* revise, lines 143-152: the words of x without a matching word of y
RemoveValues(cw, doms, x, y) ==
    LET overlap == cw.overlaps[<<x, y>>]
    IN  IF overlap = NoOverlap THEN {}
        ELSE {word_x \in doms[x] :
                ~ \E word_y \in doms[y] :
                     /\ ~Raises(word_x, overlap[1], word_y, overlap[2])
                     /\ Agree(word_x, overlap[1], word_y, overlap[2])}

\* revise can raise IndexError: some pair of words that may be compared first
\* has an index out of range
ReviseCanRaise(cw, doms, x, y) ==
    LET overlap == cw.overlaps[<<x, y>>]
    IN  /\ overlap # NoOverlap
        /\ \E word_x \in doms[x], word_y \in doms[y] :
              Raises(word_x, overlap[1], word_y, overlap[2])

\* revise can run to its return statement: for every word of x some order of
\* domains[y] reaches a match (or the end) before an index out of range
ReviseCanReturn(cw, doms, x, y) ==
    LET overlap == cw.overlaps[<<x, y>>]
    IN  IF overlap = NoOverlap THEN TRUE
        ELSE \A word_x \in doms[x] :
                \/ \A word_y \in doms[y] :
                      ~Raises(word_x, overlap[1], word_y, overlap[2])
                \/ \E word_y \in doms[y] :
                      /\ ~Raises(word_x, overlap[1], word_y, overlap[2])
                      /\ Agree(word_x, overlap[1], word_y, overlap[2])

\* variant: the domain of x is rebuilt from the whole vocabulary
ReviseFromVocabulary(cw, doms, x, y) ==
    [doms EXCEPT ![x] = cw.words \ RemoveValues(cw, doms, x, y)]

\* self.domains after revise(x, y)
Revise(cw, doms, x, y) ==
    [doms EXCEPT ![x] = @ \ RemoveValues(cw, doms, x, y)]

\* variant: revise always reports a revision
ReviseReturnAlways(cw, doms, x, y) == TRUE

\* variant: revise reports a revision only when it emptied the domain
ReviseReturnEmptied(cw, doms, x, y) ==
    doms[x] \ RemoveValues(cw, doms, x, y) = {}

\* revise, lines 129, 154-158: the value returned, True once a word was removed
ReviseReturn(cw, doms, x, y) ==
    RemoveValues(cw, doms, x, y) # {}

\* a Variable never compares equal to a str
VariableEqualsWord(variable, word) == FALSE

\* variant: nothing is put back on the worklist
ReEnqueueNothing(cw, doms, x, y) == {}

\* ac3, line 198: self.crossword.neighbors(x) - self.domains[y]
ReEnqueue(cw, doms, x, y) ==
    {another_var \in Neighbors(cw, x) :
        \A word \in doms[y] : ~VariableEqualsWord(another_var, word)}

\* variant: only the arcs that start at an across variable
ArcSetAcross(cw) ==
    {a \in cw.variables \X cw.variables :
        a[1] # a[2] /\ a[2] \in Neighbors(cw, a[1]) /\ a[1].direction = ACROSS}

\* ac3, lines 172-175: all arcs of the problem
ArcSet(cw) ==
    {a \in cw.variables \X cw.variables : a[1] # a[2] /\ a[2] \in Neighbors(cw, a[1])}

\* the lists lines 172-175 can build: the arcs of one x are adjacent
InitialArcs(cw) ==
    {s \in Perms(ArcSet(cw)) :
        \A a, b, c \in 1..Len(s) :
            (a < b /\ b < c /\ s[a][1] = s[c][1]) => s[b][1] = s[a][1]}

\* ac3, line 200: the value returned when the worklist is exhausted
Ac3ExhaustedReturn == "False"

\* variant: an emptied domain is reported as success
Ac3EmptiedReturnTrue == "True"

\* ac3, line 192: the value returned when a domain was emptied
Ac3EmptiedReturn == "False"

\* no direct call of revise has been made
NoRevision == [called |-> FALSE, x |-> NoVariable, y |-> NoVariable,
               before |-> <<>>, returned |-> FALSE]

\* no direct call of consistent has been made
NoCheck == [called |-> FALSE, assignment |-> <<>>, returned |-> "pending"]

\* CrosswordCreator(crossword) for a structure and a vocabulary of the input sets
CrosswordInit ==
    /\ \E structure \in Structures, words \in Vocabularies :
          crossword = Crossword(structure, words)
    /\ domains = InitialDomains(crossword)
    /\ pc = "enforce_node_consistency"
    /\ arcs = <<>>
    /\ ac3_return = "pending"
    /\ ac3_exit = "pending"
    /\ stack = <<>>
    /\ call = <<>>
    /\ ret = None
    /\ result = None
    /\ searched = FALSE
    /\ pass = 1
    /\ first_pass = [domains |-> domains, exit |-> "pending"]
    /\ previous = [done |-> FALSE, result |-> None]
    /\ revision = NoRevision
    /\ checked = NoCheck

\* no crossword is being solved
CrosswordIdle ==
    /\ crossword = Crossword({}, {})
    /\ domains = InitialDomains(crossword)
    /\ pc = "idle"
    /\ arcs = <<>>
    /\ ac3_return = "pending"
    /\ ac3_exit = "pending"
    /\ stack = <<>>
    /\ call = <<>>
    /\ ret = None
    /\ result = None
    /\ searched = FALSE
    /\ pass = 1
    /\ first_pass = [domains |-> domains, exit |-> "pending"]
    /\ previous = [done |-> FALSE, result |-> None]
    /\ revision = NoRevision
    /\ checked = NoCheck

Init == CrosswordInit /\ MinesweeperIdle /\ TicTacToeIdle

\* solve, line 92
EnforceNodeConsistency ==
    /\ pc = "enforce_node_consistency"
    /\ domains' = [v \in crossword.variables |-> NodeConsistentDomain(v, domains[v])]
    /\ pc' = "ac3"
    /\ UNCHANGED <<crossword, arcs, ac3_return, ac3_exit, stack, call, ret, result,
                   searched, pass, first_pass>>
    /\ UNCHANGED <<previous, revision, checked, game, ai, calls, board, move>>

\* solve, line 93; ac3, lines 171-175
Ac3Begin ==
    /\ pc = "ac3"
    /\ \E s \in InitialArcs(crossword) : arcs' = s
    /\ pc' = "ac3_loop"
    /\ ac3_return' = "pending"
    /\ ac3_exit' = "pending"
    /\ UNCHANGED <<crossword, domains, stack, call, ret, result, searched, pass,
                   first_pass>>
    /\ UNCHANGED <<previous, revision, checked, game, ai, calls, board, move>>

\* ac3, lines 181-199: one iteration of the while loop
Ac3Step ==
    /\ pc = "ac3_loop"
    /\ arcs # <<>>
    /\ LET x == arcs[1][1]
           y == arcs[1][2]
           rest == Tail(arcs)
           revised == ReviseReturn(crossword, domains, x, y)
           after == Revise(crossword, domains, x, y)
       IN  \/ /\ ReviseCanRaise(crossword, domains, x, y)
              /\ pc' = "raised"
              /\ arcs' = rest
              /\ UNCHANGED <<domains, ac3_return, ac3_exit>>
           \/ /\ ReviseCanReturn(crossword, domains, x, y)
              /\ domains' = after
              /\ IF revised /\ after[x] = {}
                 THEN /\ arcs' = rest
                      /\ ac3_return' = Ac3EmptiedReturn
                      /\ ac3_exit' = "emptied"
                      /\ pc' = "ac3_returned"
                 ELSE /\ IF revised
                         THEN \E more \in Perms(ReEnqueue(crossword, domains, x, y)) :
                                 arcs' = rest \o [k \in 1..Len(more) |-> <<more[k], x>>]
                         ELSE arcs' = rest
                      /\ UNCHANGED <<pc, ac3_return, ac3_exit>>
    /\ UNCHANGED <<crossword, stack, call, ret, result, searched, pass, first_pass>>
    /\ UNCHANGED <<previous, revision, checked, game, ai, calls, board, move>>

\* ac3, line 200: the worklist is empty
Ac3Exhausted ==
    /\ pc = "ac3_loop"
    /\ arcs = <<>>
    /\ ac3_return' = Ac3ExhaustedReturn
    /\ ac3_exit' = "exhausted"
    /\ pc' = "ac3_returned"
    /\ UNCHANGED <<crossword, domains, arcs, stack, call, ret, result, searched,
                   pass, first_pass>>
    /\ UNCHANGED <<previous, revision, checked, game, ai, calls, board, move>>

---------------------------------------------------------------------------
(* CrosswordCreator: the search *)

\* assignment_complete
AssignmentComplete(cw, assignment) ==
    \A variable \in cw.variables : variable \in Keys(assignment)

\* consistent, lines 236-244, for the k-th item: the assigned neighbours whose
\* word is too short for the overlap index (IndexError at line 242)
NeighborsRaising(cw, assignment, k) ==
    {neighbor \in Neighbors(cw, assignment[k][1]) \cap Keys(assignment) :
        ~InRange(Get(assignment, neighbor), cw.overlaps[<<assignment[k][1], neighbor>>][2])}

\* variant: overlap letters are never compared
NeighborsConflictingNever(cw, assignment, k) == {}

\* ... and those whose letter at the overlap differs
NeighborsConflicting(cw, assignment, k) ==
    {neighbor \in (Neighbors(cw, assignment[k][1]) \cap Keys(assignment))
                    \ NeighborsRaising(cw, assignment, k) :
        LET overlap == cw.overlaps[<<assignment[k][1], neighbor>>]
        IN  assignment[k][2][overlap[1] + 1] # Get(assignment, neighbor)[overlap[2] + 1]}

\* variant: no word is remembered, so reuse goes unnoticed
PreviouslySeenNothing(assignment, k) == {}

\* consistent, lines 222-226: the words of the items before the k-th
PreviouslySeen(assignment, k) == {assignment[m][2] : m \in 1..(k - 1)}

RECURSIVE ConsistentFrom(_, _, _)
\* consistent, lines 223-245, from the k-th item on: the outcomes the loop
\* can have ("True", "False", or "IndexError" when line 242 raises)
ConsistentFrom(cw, assignment, k) ==
    IF k > Len(assignment) THEN {"True"}
    ELSE LET variable == assignment[k][1]
             word == assignment[k][2]
             previously_seen == PreviouslySeen(assignment, k)
         IN  IF word \in previously_seen THEN {"False"}
             ELSE IF Len(word) # variable.length THEN {"False"}
             ELSE IF /\ NeighborsRaising(cw, assignment, k) = {}
                     /\ NeighborsConflicting(cw, assignment, k) = {}
                  THEN ConsistentFrom(cw, assignment, k + 1)
                  ELSE (IF NeighborsRaising(cw, assignment, k) # {}
                        THEN {"IndexError"} ELSE {})
                       \cup
                       (IF NeighborsConflicting(cw, assignment, k) # {}
                        THEN {"False"} ELSE {})

\* consistent
Consistent(cw, assignment) == ConsistentFrom(cw, assignment, 1)

RECURSIVE SumOver(_, _)
SumOver(S, f) ==
    IF S = {} THEN 0
    ELSE LET e == CHOOSE e \in S : TRUE IN f[e] + SumOver(S \ {e}, f)

\* order_domain_values, line 263
UnassignedNeighbors(cw, var, assignment) == Neighbors(cw, var) \ Keys(assignment)

\* order_domain_values, lines 266-282: conflicts[value]
Conflicts(cw, doms, var, assignment, value) ==
    LET unassigned_neighbors == UnassignedNeighbors(cw, var, assignment)
        per_neighbor ==
            [neighbor \in unassigned_neighbors |->
                LET overlap == cw.overlaps[<<var, neighbor>>]
                IN  Cardinality({another_value \in doms[neighbor] :
                        value[overlap[1] + 1] # another_value[overlap[2] + 1]})]
    IN  SumOver(unassigned_neighbors, per_neighbor)

\* order_domain_values, line 280 raises IndexError
OrderDomainValuesRaises(cw, doms, var, assignment) ==
    \E value \in doms[var], neighbor \in UnassignedNeighbors(cw, var, assignment) :
        \E another_value \in doms[neighbor] :
            LET overlap == cw.overlaps[<<var, neighbor>>]
            IN  Raises(value, overlap[1], another_value, overlap[2])

\* variant: the candidates are taken from the whole vocabulary
OrderDomainValuesVocabulary(cw, doms, var, assignment) == Perms(cw.words)

\* variant: the values are sorted by decreasing number of conflicts
OrderDomainValuesDescending(cw, doms, var, assignment) ==
    {s \in Perms(doms[var]) :
        \A a, b \in 1..Len(s) :
            a < b => Conflicts(cw, doms, var, assignment, s[a])
                        >= Conflicts(cw, doms, var, assignment, s[b])}

\* order_domain_values, line 285: the lists sorted() can return; it is stable,
\* so equal keys stay in the (arbitrary) iteration order of the set
OrderDomainValues(cw, doms, var, assignment) ==
    {s \in Perms(doms[var]) :
        \A a, b \in 1..Len(s) :
            a < b => Conflicts(cw, doms, var, assignment, s[a])
                        <= Conflicts(cw, doms, var, assignment, s[b])}

\* variant: the values that rule out a neighbouring word are dropped from the domain
DomainsAfterOrderingPruned(cw, doms, var, assignment) ==
    [doms EXCEPT ![var] = {value \in @ : Conflicts(cw, doms, var, assignment, value) = 0}]

\* order_domain_values, lines 261-285: self.domains when it returns; sorted()
\* builds a new list and the loops only read the domains
DomainsAfterOrdering(cw, doms, var, assignment) == doms

\* select_unassigned_variable, line 304: float('inf')
Infinity == -1

\* variant: on a tie the variable found first is kept, whatever its degree
SelectStepFirst(cw, doms, acc, variable) ==
    LET size == Cardinality(doms[variable])
    IN  IF acc.min_values = Infinity \/ size < acc.min_values
        THEN [min_values |-> size, chosen_var |-> variable]
        ELSE acc

\* select_unassigned_variable, lines 311-320: one iteration of the loop
SelectStep(cw, doms, acc, variable) ==
    LET size == Cardinality(doms[variable])
    IN  IF acc.min_values = Infinity \/ size < acc.min_values
        THEN [min_values |-> size, chosen_var |-> variable]
        ELSE IF size = acc.min_values
             THEN IF Cardinality(Neighbors(cw, variable))
                        > Cardinality(Neighbors(cw, acc.chosen_var))
                  THEN [acc EXCEPT !.chosen_var = variable]
                  ELSE acc
             ELSE acc

RECURSIVE SelectLoop(_, _, _, _, _)
SelectLoop(cw, doms, unassigned_vars, k, acc) ==
    IF k > Len(unassigned_vars) THEN acc.chosen_var
    ELSE SelectLoop(cw, doms, unassigned_vars, k + 1,
                    SelectStep(cw, doms, acc, unassigned_vars[k]))

\* variant: any unassigned variable is chosen
SelectUnassignedVariableAny(cw, doms, assignment) == cw.variables \ Keys(assignment)

\* select_unassigned_variable: the variables it can return, one for each
\* iteration order of self.crossword.variables
SelectUnassignedVariable(cw, doms, assignment) ==
    {SelectLoop(cw, doms, unassigned_vars, 1,
                [min_values |-> Infinity, chosen_var |-> NoVariable]) :
        unassigned_vars \in Perms(cw.variables \ Keys(assignment))}

\* variant: the tentative extension is written into the caller's own mapping
AssignmentAfterTryShared(assignment, copy_assignment) == copy_assignment

\* backtrack, lines 342-344: assignment after copy_assignment = assignment.copy()
\* and copy_assignment[variable] = value; the copy is a different dict
AssignmentAfterTry(assignment, copy_assignment) == assignment

\* copy_assignment.pop(variable)
Pop(assignment, variable) ==
    SelectSeq(assignment, LAMBDA item : item[1] # variable)

\* variant: the loop gives up after its first candidate
NextValuesNone(values) == <<>>

\* backtrack, line 340: the candidates left after the one being tried
NextValues(values) == Tail(values)

\* the activation record of one backtrack call: its argument, the variable
\* selected, the list order_domain_values returned (ordered), the candidates the
\* for loop has not reached yet (values) and those it has (tried), and the
\* last copy made of the argument
Frame(assignment, variable, values) ==
    [assignment |-> assignment, variable |-> variable, values |-> values,
     copy_assignment |-> assignment, ordered |-> values, tried |-> <<>>]

Top == stack[Len(stack)]

SetTop(frame) == [stack EXCEPT ![Len(stack)] = frame]

Caller == SubSeq(stack, 1, Len(stack) - 1)

\* solve, line 94: self.backtrack(dict())
SolveBacktrack ==
    /\ pc = "ac3_returned"
    /\ call' = <<>>
    /\ pc' = "bt_call"
    /\ UNCHANGED <<crossword, domains, arcs, ac3_return, ac3_exit, stack, ret, result,
                   searched, pass, first_pass>>
    /\ UNCHANGED <<previous, revision, checked, game, ai, calls, board, move>>

\* backtrack, lines 333-340: entry of a call up to the head of the for loop
BtCall ==
    /\ pc = "bt_call"
    /\ searched' = TRUE
    /\ IF AssignmentComplete(crossword, call)
       THEN /\ ret' = Some(call)
            /\ pc' = "bt_return"
            /\ UNCHANGED <<stack, domains>>
       ELSE \E variable \in SelectUnassignedVariable(crossword, domains, call) :
              IF OrderDomainValuesRaises(crossword, domains, variable, call)
              THEN /\ pc' = "raised"
                   /\ UNCHANGED <<stack, ret, domains>>
              ELSE \E values \in OrderDomainValues(crossword, domains, variable, call) :
                      /\ stack' = Append(stack, Frame(call, variable, values))
                      /\ domains' = DomainsAfterOrdering(crossword, domains, variable, call)
                      /\ pc' = "bt_loop"
                      /\ UNCHANGED ret
    /\ UNCHANGED <<crossword, arcs, ac3_return, ac3_exit, call, result, pass,
                   first_pass>>
    /\ UNCHANGED <<previous, revision, checked, game, ai, calls, board, move>>

\* backtrack, lines 340-351: one candidate value
BtTry ==
    /\ pc = "bt_loop"
    /\ Top.values # <<>>
    /\ LET value == Head(Top.values)
           copy_assignment == Extend(Top.assignment, Top.variable, value)
           frame == [Top EXCEPT !.values = NextValues(@),
                                !.copy_assignment = copy_assignment,
                                !.tried = Append(@, value),
                                !.assignment = AssignmentAfterTry(@, copy_assignment)]
       IN  \E outcome \in Consistent(crossword, copy_assignment) :
              /\ stack' = SetTop(frame)
              /\ IF outcome = "IndexError"
                 THEN pc' = "raised" /\ UNCHANGED call
                 ELSE IF outcome = "True"
                      THEN pc' = "bt_call" /\ call' = copy_assignment
                      ELSE UNCHANGED <<pc, call>>
    /\ UNCHANGED <<crossword, domains, arcs, ac3_return, ac3_exit, ret, result,
                   searched, pass, first_pass>>
    /\ UNCHANGED <<previous, revision, checked, game, ai, calls, board, move>>

\* backtrack, line 363: every candidate was tried
BtExhausted ==
    /\ pc = "bt_loop"
    /\ Top.values = <<>>
    /\ stack' = Caller
    /\ ret' = None
    /\ pc' = "bt_return"
    /\ UNCHANGED <<crossword, domains, arcs, ac3_return, ac3_exit, call, result,
                   searched, pass, first_pass>>
    /\ UNCHANGED <<previous, revision, checked, game, ai, calls, board, move>>

\* backtrack, lines 351-360: the recursive call returned to its caller
BtReturn ==
    /\ pc = "bt_return"
    /\ stack # <<>>
    /\ IF ~ret.isNone
       THEN /\ stack' = Caller
            /\ UNCHANGED pc
       ELSE /\ stack' = SetTop([Top EXCEPT !.copy_assignment = Pop(@, Top.variable)])
            /\ pc' = "bt_loop"
    /\ UNCHANGED <<crossword, domains, arcs, ac3_return, ac3_exit, call, ret, result,
                   searched, pass, first_pass>>
    /\ UNCHANGED <<previous, revision, checked, game, ai, calls, board, move>>

\* solve, line 94: the outermost call returned
SolveReturn ==
    /\ pc = "bt_return"
    /\ stack = <<>>
    /\ result' = ret
    /\ pc' = "done"
    /\ UNCHANGED <<crossword, domains, arcs, ac3_return, ac3_exit, stack, call, ret,
                   searched, pass, first_pass>>
    /\ UNCHANGED <<previous, revision, checked, game, ai, calls, board, move>>

Next ==
    \/ EnforceNodeConsistency
    \/ Ac3Begin
    \/ Ac3Step
    \/ Ac3Exhausted
    \/ SolveBacktrack
    \/ BtCall
    \/ BtTry
    \/ BtExhausted
    \/ BtReturn
    \/ SolveReturn

Spec == Init /\ [][Next]_vars

\* solve() keeps running until it returns
FairSpec == Spec /\ WF_vars(Next)

\* node consistency and ac3 run a second time right after the first
SecondPass ==
    /\ pc = "ac3_returned"
    /\ pass = 1
    /\ first_pass' = [domains |-> domains, exit |-> ac3_exit]
    /\ pass' = 2
    /\ pc' = "enforce_node_consistency"
    /\ UNCHANGED <<crossword, domains, arcs, ac3_return, ac3_exit, stack, call, ret,
                   result, searched>>
    /\ UNCHANGED <<previous, revision, checked, game, ai, calls, board, move>>

NextTwice ==
    \/ EnforceNodeConsistency
    \/ Ac3Begin
    \/ Ac3Step
    \/ Ac3Exhausted
    \/ SecondPass

SpecTwice == Init /\ [][NextTwice]_vars

\* a second run of solve() by a new CrosswordCreator on the same crossword
SolveAgain ==
    /\ pc = "done"
    /\ ~previous.done
    /\ previous' = [done |-> TRUE, result |-> result]
    /\ domains' = InitialDomains(crossword)
    /\ pc' = "enforce_node_consistency"
    /\ arcs' = <<>>
    /\ ac3_return' = "pending"
    /\ ac3_exit' = "pending"
    /\ stack' = <<>>
    /\ call' = <<>>
    /\ ret' = None
    /\ result' = None
    /\ searched' = FALSE
    /\ UNCHANGED <<crossword, pass, first_pass, revision, checked, game, ai, calls, board, move>>

NextAgain ==
    \/ EnforceNodeConsistency
    \/ Ac3Begin
    \/ Ac3Step
    \/ Ac3Exhausted
    \/ SolveBacktrack
    \/ BtCall
    \/ BtTry
    \/ BtExhausted
    \/ BtReturn
    \/ SolveReturn
    \/ SolveAgain

SpecAgain == Init /\ [][NextAgain]_vars

\* revise(x, y) called directly on the node-consistent domains, for any two
\* variables, crossing or not
ReviseCall ==
    /\ pc = "ac3"
    /\ \E x, y \in crossword.variables :
          /\ x # y
          /\ \/ /\ ReviseCanRaise(crossword, domains, x, y)
                /\ pc' = "raised"
                /\ UNCHANGED <<domains, revision>>
             \/ /\ ReviseCanReturn(crossword, domains, x, y)
                /\ domains' = Revise(crossword, domains, x, y)
                /\ revision' = [called |-> TRUE, x |-> x, y |-> y, before |-> domains,
                                returned |-> ReviseReturn(crossword, domains, x, y)]
                /\ UNCHANGED pc
    /\ UNCHANGED <<crossword, arcs, ac3_return, ac3_exit, stack, call, ret, result,
                   searched, pass, first_pass, previous>>
    /\ UNCHANGED <<checked, game, ai, calls, board, move>>

NextRevise ==
    \/ EnforceNodeConsistency
    \/ ReviseCall

SpecRevise == Init /\ [][NextRevise]_vars

\* the dicts that map some of the variables, in any insertion order, to words
\* of the vocabulary
Assignments(cw) ==
    UNION {UNION {{[k \in 1..Len(keys) |-> <<keys[k], words[k]>>] :
                     words \in [1..Len(keys) -> cw.words]} :
                  keys \in Perms(V)} :
           V \in SUBSET cw.variables}

\* consistent(assignment) called directly on any such dict
ConsistentCall ==
    /\ pc = "enforce_node_consistency"
    /\ \E assignment \in Assignments(crossword) :
          \E outcome \in Consistent(crossword, assignment) :
             /\ checked' = [called |-> TRUE, assignment |-> assignment,
                            returned |-> outcome]
             /\ pc' = IF outcome = "IndexError" THEN "raised" ELSE "checked"
    /\ UNCHANGED <<crossword, domains, arcs, ac3_return, ac3_exit, stack, call, ret,
                   result, searched, pass, first_pass, previous, revision>>
    /\ UNCHANGED <<game, ai, calls, board, move>>

NextConsistent == ConsistentCall

SpecConsistent == Init /\ [][NextConsistent]_vars

\* the arc lists ac3 is given: any arcs of the problem, in any order
ArcLists(cw) == UNION {Perms(S) : S \in SUBSET ArcSet(cw)}

\* ac3(arcs), lines 176-178: the worklist starts as a copy of the list given
Ac3BeginArcs ==
    /\ pc = "ac3"
    /\ \E s \in ArcLists(crossword) : arcs' = s
    /\ pc' = "ac3_loop"
    /\ ac3_return' = "pending"
    /\ ac3_exit' = "pending"
    /\ UNCHANGED <<crossword, domains, stack, call, ret, result, searched, pass,
                   first_pass>>
    /\ UNCHANGED <<previous, revision, checked, game, ai, calls, board, move>>

NextArcs ==
    \/ EnforceNodeConsistency
    \/ Ac3BeginArcs
    \/ Ac3Step
    \/ Ac3Exhausted

\* ac3 runs without interruption: a step that can be taken is taken
SpecArcs == Init /\ [][NextArcs]_vars /\ WF_vars(NextArcs)

\* the worklist without its k-th arc
Without(list, k) == SubSeq(list, 1, k - 1) \o SubSeq(list, k + 1, Len(list))

\* ac3, lines 181-199, with the worklist used as a bag: the iteration of
\* Ac3Step, except that the arc taken is any arc of the worklist (arcs.pop(k)
\* instead of arcs.pop(0)); FIFO and LIFO are the choices k = 1 and k = Len(arcs)
Ac3StepAny ==
    /\ pc = "ac3_loop"
    /\ arcs # <<>>
    /\ \E k \in 1..Len(arcs) :
          LET x == arcs[k][1]
              y == arcs[k][2]
              rest == Without(arcs, k)
              revised == ReviseReturn(crossword, domains, x, y)
              after == Revise(crossword, domains, x, y)
          IN  \/ /\ ReviseCanRaise(crossword, domains, x, y)
                 /\ pc' = "raised"
                 /\ arcs' = rest
                 /\ UNCHANGED <<domains, ac3_return, ac3_exit>>
              \/ /\ ReviseCanReturn(crossword, domains, x, y)
                 /\ domains' = after
                 /\ IF revised /\ after[x] = {}
                    THEN /\ arcs' = rest
                         /\ ac3_return' = Ac3EmptiedReturn
                         /\ ac3_exit' = "emptied"
                         /\ pc' = "ac3_returned"
                    ELSE /\ IF revised
                            THEN \E more \in Perms(ReEnqueue(crossword, domains, x, y)) :
                                    arcs' = rest \o [m \in 1..Len(more) |-> <<more[m], x>>]
                            ELSE arcs' = rest
                         /\ UNCHANGED <<pc, ac3_return, ac3_exit>>
    /\ UNCHANGED <<crossword, stack, call, ret, result, searched, pass, first_pass>>
    /\ UNCHANGED <<previous, revision, checked, game, ai, calls, board, move>>

NextAnyOrder ==
    \/ EnforceNodeConsistency
    \/ Ac3Begin
    \/ Ac3StepAny
    \/ Ac3Exhausted

SpecAnyOrder == Init /\ [][NextAnyOrder]_vars

---------------------------------------------------------------------------
(* Minesweeper, Sentence and MinesweeperAI (src/minesweeper/minesweeper.py) *)

BoardCells == (0..(BoardHeight - 1)) \X (0..(BoardWidth - 1))

\* the in-bounds cells within one row and column of cell, cell included
Region(cell) ==
    {c \in BoardCells :
        /\ cell[1] - 1 <= c[1] /\ c[1] < cell[1] + 2
        /\ cell[2] - 1 <= c[2] /\ c[2] < cell[2] + 2}

\* Minesweeper.nearby_mines: the cell itself is not counted
NearbyMines(mines, cell) ==
    Cardinality({c \in Region(cell) : c # cell /\ c \in mines})

Sentence(cells, count) == [cells |-> cells, count |-> count]

\* variant: a sentence with a non-zero count takes all its cells for mines
KnownMinesAny(sentence) ==
    IF sentence.count # 0 THEN sentence.cells ELSE {}

\* Sentence.known_mines
KnownMines(sentence) ==
    IF Cardinality(sentence.cells) = sentence.count /\ sentence.count # 0
    THEN sentence.cells
    ELSE {}

\* Sentence.known_safes
KnownSafes(sentence) ==
    IF sentence.count = 0 THEN sentence.cells ELSE {}

\* Sentence.mark_mine
SentenceMarkMine(sentence, cell) ==
    IF cell \in sentence.cells
    THEN Sentence(sentence.cells \ {cell}, sentence.count - 1)
    ELSE sentence

\* Sentence.mark_safe
SentenceMarkSafe(sentence, cell) ==
    IF cell \in sentence.cells
    THEN Sentence(sentence.cells \ {cell}, sentence.count)
    ELSE sentence

\* MinesweeperAI.mark_mine
MarkMine(self, cell) ==
    [self EXCEPT !.mines = @ \cup {cell},
                 !.knowledge = [k \in DOMAIN @ |-> SentenceMarkMine(@[k], cell)]]

\* MinesweeperAI.mark_safe
MarkSafe(self, cell) ==
    [self EXCEPT !.safes = @ \cup {cell},
                 !.knowledge = [k \in DOMAIN @ |-> SentenceMarkSafe(@[k], cell)]]

\* add_knowledge, lines 237-238: mark_mine for each cell of the copied set; the
\* calls for different cells commute, so the order of the set does not matter
RECURSIVE MarkMines(_, _)
MarkMines(self, known_mines) ==
    IF known_mines = {} THEN self
    ELSE LET cell == CHOOSE c \in known_mines : TRUE
         IN  MarkMines(MarkMine(self, cell), known_mines \ {cell})

\* add_knowledge, lines 241-242: mark_safe for each cell of the copied set
RECURSIVE MarkSafes(_, _)
MarkSafes(self, known_safes) ==
    IF known_safes = {} THEN self
    ELSE LET cell == CHOOSE c \in known_safes : TRUE
         IN  MarkSafes(MarkSafe(self, cell), known_safes \ {cell})

\* add_knowledge, lines 233-242 and 262-269: the loop over self.knowledge, from
\* its k-th sentence on; known_safes is asked after the mines were marked
RECURSIVE MarkKnown(_, _)
MarkKnown(self, k) ==
    IF k > Len(self.knowledge) THEN self
    ELSE LET marked == MarkMines(self, KnownMines(self.knowledge[k]))
         IN  MarkKnown(MarkSafes(marked, KnownSafes(marked.knowledge[k])), k + 1)

\* the sentences of a list
SentencesOf(list) == {list[k] : k \in 1..Len(list)}

\* add_knowledge, lines 245-258: the pairs (sentence1, sentence2) of
\* self.knowledge are visited in list order, numbered p = 0, 1, ...
RECURSIVE Deduce(_, _, _)
Deduce(knowledge, p, deducedSentences) ==
    LET n == Len(knowledge)
    IN  IF p >= n * n THEN deducedSentences
        ELSE LET sentence1 == knowledge[(p \div n) + 1]
                 sentence2 == knowledge[(p % n) + 1]
                 deduced_sentence == Sentence(sentence2.cells \ sentence1.cells,
                                              sentence2.count - sentence1.count)
             IN  IF /\ sentence1 # sentence2
                    /\ sentence1.cells \subseteq sentence2.cells
                    /\ deduced_sentence \notin SentencesOf(knowledge)
                    /\ deduced_sentence \notin SentencesOf(deducedSentences)
                 THEN Deduce(knowledge, p + 1, Append(deducedSentences, deduced_sentence))
                 ELSE Deduce(knowledge, p + 1, deducedSentences)

\* add_knowledge, lines 210-230: the sentence for the revealed cell. The test
\* (i, j) != 1 of line 217 is always true, so the cell itself is looked at too.
NewSentence(self, cell, count) ==
    Sentence(((Region(cell) \ self.mines) \ self.safes) \ self.mines,
             count - Cardinality(Region(cell) \cap self.mines))

\* MinesweeperAI.add_knowledge
AddKnowledge(self, cell, count) ==
    LET moved == MarkSafe([self EXCEPT !.moves_made = @ \cup {cell}], cell)
        added == [moved EXCEPT !.knowledge =
                      Append(@, NewSentence(moved, cell, count))]
        marked == MarkKnown(added, 1)
        extended == [marked EXCEPT !.knowledge =
                        @ \o Deduce(marked.knowledge, 0, <<>>)]
        remarked == MarkKnown(extended, 1)
    IN  [remarked EXCEPT !.knowledge =
            SelectSeq(@, LAMBDA sentence : sentence # Sentence({}, 0))]

\* Minesweeper(height, width, mines) and MinesweeperAI(height, width)
MinesweeperInit ==
    /\ \E mines \in SUBSET BoardCells :
          /\ Cardinality(mines) = Mines
          /\ game = [mines |-> mines]
    /\ ai = [moves_made |-> {}, mines |-> {}, safes |-> {}, knowledge |-> <<>>]
    /\ calls = 0

InitMinesweeper == CrosswordIdle /\ MinesweeperInit /\ TicTacToeIdle

\* a cell that is no mine is revealed and the AI is told its count
RevealCell ==
    /\ calls < MaxCalls
    /\ \E cell \in BoardCells \ game.mines :
          ai' = AddKnowledge(ai, cell, NearbyMines(game.mines, cell))
    /\ calls' = calls + 1
    /\ UNCHANGED <<crossword, domains, pc, arcs, ac3_return, ac3_exit, stack, call,
                   ret, result, searched, pass, first_pass, previous, revision, checked>>
    /\ UNCHANGED <<game, board, move>>

NextMinesweeper == RevealCell

SpecMinesweeper == InitMinesweeper /\ [][NextMinesweeper]_vars

---------------------------------------------------------------------------
(* Tic-tac-toe (src/tictactoe/tictactoe.py) *)

X == "X"

O == "O"

EMPTY == "EMPTY"

\* the largest and the smallest number of a non-empty set
Max(S) == CHOOSE v \in S : \A w \in S : w <= v

Min(S) == CHOOSE v \in S : \A w \in S : v <= w

\* initial_state
InitialState ==
    <<<<EMPTY, EMPTY, EMPTY>>, <<EMPTY, EMPTY, EMPTY>>, <<EMPTY, EMPTY, EMPTY>>>>

\* board[row][col], rows and columns counted from 0
At(b, row, col) == b[row + 1][col + 1]

\* range(len(board))
Rows(b) == 0..(Len(b) - 1)

\* range(len(board[0]))
Cols(b) == 0..(Len(b[1]) - 1)

\* the number of cells of the board that hold the mark
Count(b, mark) ==
    Cardinality({c \in Rows(b) \X Cols(b) : At(b, c[1], c[2]) = mark})

\* player
Player(b) == IF Count(b, X) > Count(b, O) THEN O ELSE X

\* actions
Actions(b) == {c \in Rows(b) \X Cols(b) : At(b, c[1], c[2]) = EMPTY}

\* result, for an action on an empty cell of the board
Result(b, action) ==
    [b EXCEPT ![action[1] + 1][action[2] + 1] = Player(b)]

\* checkRow
CheckRow(b, player) ==
    \E row \in Rows(b) : \A col \in Cols(b) : At(b, row, col) = player

\* checkCol
CheckCol(b, player) ==
    \E col \in Cols(b) : \A row \in Rows(b) : At(b, row, col) = player

\* diagOne
DiagOne(b, player) ==
    Cardinality({c \in Rows(b) \X Cols(b) :
                    c[1] = c[2] /\ At(b, c[1], c[2]) = player}) = Len(b)

\* diagTwo
DiagTwo(b, player) ==
    Cardinality({i \in Rows(b) : At(b, i, Len(b) - 1 - i) = player}) = Len(b)

\* winner: X, O or "None"
Winner(b) ==
    IF CheckRow(b, X) \/ CheckCol(b, X) \/ DiagOne(b, X) \/ DiagTwo(b, X) THEN X
    ELSE IF CheckRow(b, O) \/ CheckCol(b, O) \/ DiagOne(b, O) \/ DiagTwo(b, O) THEN O
    ELSE "None"

\* tie
Tie(b) == Len(b) * Len(b[1]) - Count(b, X) - Count(b, O) = 0

\* terminal
Terminal(b) == Winner(b) # "None" \/ Tie(b)

\* utility
Utility(b) ==
    IF Winner(b) = X THEN 1
    ELSE IF Winner(b) = O THEN -1
    ELSE 0

\* max_value, line 196: -math.inf, below every utility
NegativeInfinity == -2

\* min_value, line 208: math.inf, above every utility
PositiveInfinity == 2

RECURSIVE MaxValue(_), MinValue(_)

\* max_value
MaxValue(b) ==
    IF Terminal(b) THEN Utility(b)
    ELSE Max({NegativeInfinity} \cup {MinValue(Result(b, action)) : action \in Actions(b)})

\* min_value
MinValue(b) ==
    IF Terminal(b) THEN Utility(b)
    ELSE Min({PositiveInfinity} \cup {MaxValue(Result(b, action)) : action \in Actions(b)})

\* variant: the options are always sorted in ascending order
FirstSortedAscending(options, reverse) ==
    {o[2] : o \in {p \in options : p[1] = Min({q[1] : q \in options})}}

\* minimax, lines 232 and 240: sorted(options, key=lambda x: x[0], reverse)[0][1].
\* The sort is stable and the options were appended in the iteration order of
\* a set, so any option with the best value can come first.
FirstSorted(options, reverse) ==
    {o[2] : o \in {p \in options :
                      p[1] = IF reverse THEN Max({q[1] : q \in options})
                                        ELSE Min({q[1] : q \in options})}}

\* minimax: the values it can return
Minimax(b) ==
    IF Terminal(b) THEN {[asked |-> TRUE, isNone |-> TRUE, action |-> <<>>]}
    ELSE LET options ==
                 IF Player(b) = X
                 THEN {<<MinValue(Result(b, action)), action>> : action \in Actions(b)}
                 ELSE {<<MaxValue(Result(b, action)), action>> : action \in Actions(b)}
         IN  {[asked |-> TRUE, isNone |-> FALSE, action |-> a] :
                 a \in FirstSorted(options, Player(b) = X)}

\* a game starts
TicTacToeInit ==
    /\ board = InitialState
    /\ move = NoMove

InitTicTacToe == CrosswordIdle /\ MinesweeperIdle /\ TicTacToeInit

\* minimax(board) is called
AskMinimax ==
    /\ ~move.asked
    /\ Cardinality(Actions(board)) <= MaxEmpty
    /\ move' \in Minimax(board)
    /\ UNCHANGED <<crossword, domains, pc, arcs, ac3_return, ac3_exit, stack, call,
                   ret, result, searched, pass, first_pass, previous, revision, checked>>
    /\ UNCHANGED <<game, ai, calls, board>>

\* the player to move makes any legal move: board = result(board, action)
Play ==
    /\ ~Terminal(board)
    /\ \E action \in Actions(board) : board' = Result(board, action)
    /\ move' = NoMove
    /\ UNCHANGED <<crossword, domains, pc, arcs, ac3_return, ac3_exit, stack, call,
                   ret, result, searched, pass, first_pass, previous, revision, checked>>
    /\ UNCHANGED <<game, ai, calls>>

NextTicTacToe ==
    \/ AskMinimax
    \/ Play

SpecTicTacToe == InitTicTacToe /\ [][NextTicTacToe]_vars

---------------------------------------------------------------------------
(* Reference notions the properties are stated with *)

\* an assignment (list of items) as a mapping from its variables to words
Mapping(assignment) == [v \in Keys(assignment) |-> Get(assignment, v)]

\* m maps every variable to a word of its length, no word twice, and
\* crossing variables agree on the shared cell
GloballyConsistent(cw, m) ==
    /\ DOMAIN m = cw.variables
    /\ \A v \in cw.variables : Len(m[v]) = v.length
    /\ \A v1, v2 \in cw.variables : v1 # v2 => m[v1] # m[v2]
    /\ \A v1 \in cw.variables : \A v2 \in Neighbors(cw, v1) :
          m[v1][cw.overlaps[<<v1, v2>>][1] + 1] = m[v2][cw.overlaps[<<v1, v2>>][2] + 1]

\* all complete, globally consistent assignments over the vocabulary
Solutions(cw) ==
    {m \in [cw.variables -> cw.words] : GloballyConsistent(cw, m)}

\* the words of the vocabulary that fit variable v
LengthValid(cw, v) == {word \in cw.words : Len(word) = v.length}

\* every word of every domain has a partner in each neighbouring domain
ArcConsistent(cw, doms) ==
    \A x \in cw.variables : \A y \in Neighbors(cw, x) : \A wx \in doms[x] :
        \E wy \in doms[y] :
            wx[cw.overlaps[<<x, y>>][1] + 1] = wy[cw.overlaps[<<x, y>>][2] + 1]

TwoCrossingVariables(cw) ==
    /\ Cardinality(cw.variables) = 2
    /\ \A v \in cw.variables : Neighbors(cw, v) # {}

\* the cells of the tic-tac-toe grid and its eight winning lines
GridCells == (0..2) \X (0..2)

WinLines ==
    {{<<r, c>> : c \in 0..2} : r \in 0..2}
        \cup {{<<r, c>> : r \in 0..2} : c \in 0..2}
        \cup {{<<i, i>> : i \in 0..2}, {<<i, 2 - i>> : i \in 0..2}}

\* the cells of b that hold the mark
Marks(b, mark) == {c \in GridCells : b[c[1] + 1][c[2] + 1] = mark}

Won(b, mark) == \E line \in WinLines : line \subseteq Marks(b, mark)

Over(b) == Won(b, X) \/ Won(b, O) \/ Marks(b, EMPTY) = {}

\* X moves first and the players alternate
ToMove(b) ==
    IF Cardinality(Marks(b, X)) = Cardinality(Marks(b, O)) THEN X ELSE O

Place(b, c, mark) == [b EXCEPT ![c[1] + 1][c[2] + 1] = mark]

Successors(b) == {Place(b, c, ToMove(b)) : c \in Marks(b, EMPTY)}

Score(b) == IF Won(b, X) THEN 1 ELSE IF Won(b, O) THEN -1 ELSE 0

\* the sets of boards reachable from the empty grid in 0, 1, ... legal moves,
\* continued from the levels given up to the ninth move
RECURSIVE LevelsFrom(_)
LevelsFrom(levels) ==
    IF Len(levels) = 10 THEN levels
    ELSE LevelsFrom(Append(levels,
            UNION {Successors(b) : b \in {x \in levels[Len(levels)] : ~Over(x)}}))

BoardLevels == LevelsFrom(<<{InitialState}>>)

\* a function with the same values, written out entry by entry
Tabulated(f) == f @@ <<>>

\* the game-theoretic value of the boards reachable in k moves, given that of
\* the boards reachable in k + 1: the score of a finished game, otherwise the
\* best value the player to move can reach
ValuesAt(k, next) ==
    Tabulated([b \in BoardLevels[k + 1] |->
        IF Over(b) THEN Score(b)
        ELSE IF ToMove(b) = X
             THEN Max({next[n] : n \in Successors(b)})
             ELSE Min({next[n] : n \in Successors(b)})])

\* the value tables of the moves k, ..., 9, as a sequence from the tables given
RECURSIVE TablesFrom(_, _)
TablesFrom(k, tables) ==
    IF k < 0 THEN tables
    ELSE TablesFrom(k - 1, <<ValuesAt(k, IF tables = <<>> THEN <<>> ELSE tables[1])>> \o tables)

GameValues == TablesFrom(9, <<>>)

GameValue(b) == GameValues[10 - Cardinality(Marks(b, EMPTY))][b]

\* one round of pruning: the words with a partner in every neighbouring domain
Supported(cw, doms) ==
    [x \in cw.variables |->
        {wx \in doms[x] :
            \A y \in Neighbors(cw, x) : \E wy \in doms[y] :
                wx[cw.overlaps[<<x, y>>][1] + 1] = wy[cw.overlaps[<<x, y>>][2] + 1]}]

\* the largest arc-consistent domains inside doms
RECURSIVE LargestArcConsistent(_, _)
LargestArcConsistent(cw, doms) ==
    IF Supported(cw, doms) = doms THEN doms
    ELSE LargestArcConsistent(cw, Supported(cw, doms))

---------------------------------------------------------------------------
(* Properties *)

\* C1 (search soundness): an assignment returned by solve() assigns every
\* crossword variable exactly once and is globally consistent: no word twice,
\* every word as long as its variable, crossing words agree on the shared cell.
SearchSoundness ==
    (pc = "done" /\ ~result.isNone) =>
        /\ Len(result.items) = Cardinality(crossword.variables)
        /\ GloballyConsistent(crossword, Mapping(result.items))

\* solve() returned an assignment for the chain of three slots
SearchSoundnessWitness ==
    /\ pc = "done"
    /\ ~result.isNone
    /\ Cardinality(crossword.variables) = 3

\* C2 (unsatisfiable is a normal outcome): when no complete assignment
\* satisfies length, overlap and uniqueness constraints, solve() raises no
\* error and the value it returns is None.
UnsatisfiableReturnsNone ==
    (Solutions(crossword) = {}) =>
        /\ pc # "raised"
        /\ pc = "done" => result.isNone

\* an unsatisfiable puzzle that ac3 left with its worklist exhausted and that
\* the search gave up on after trying candidates
UnsatisfiableReturnsNoneWitness ==
    /\ pc = "done"
    /\ result.isNone
    /\ Solutions(crossword) = {}
    /\ ac3_exit = "exhausted"
    /\ \A v \in crossword.variables : domains[v] # {}

\* C3 (a solution is found whenever one exists): if some complete, globally
\* consistent assignment exists, solve() returns an assignment; for two
\* crossing variables with exactly one consistent pair it returns that pair.
SolutionFound ==
    (pc = "done" /\ Solutions(crossword) # {}) =>
        /\ ~result.isNone
        /\ (TwoCrossingVariables(crossword) /\ Cardinality(Solutions(crossword)) = 1)
              => Mapping(result.items) \in Solutions(crossword)

\* two crossing variables, several candidate words for one of them, exactly one
\* consistent pair, and that pair returned
SolutionFoundWitness ==
    /\ pc = "done"
    /\ TwoCrossingVariables(crossword)
    /\ Cardinality(Solutions(crossword)) = 1
    /\ \E v \in crossword.variables : Cardinality(LengthValid(crossword, v)) > 1
    /\ ~result.isNone
    /\ Mapping(result.items) \in Solutions(crossword)

\* every active backtrack call holds one more assigned variable than its caller
DepthBounded ==
    /\ Len(stack) <= Cardinality(crossword.variables)
    /\ \A k \in 1..Len(stack) : Cardinality(Keys(stack[k].assignment)) = k - 1
    /\ pc = "bt_call" => Cardinality(Keys(call)) = Len(stack)

\* C4 (search terminates): each recursive backtrack call is made on an
\* assignment with exactly one more assigned variable than its caller's, the
\* recursion is never deeper than the number of variables, and solve()
\* eventually returns.
SearchTerminates == []DepthBounded /\ <>(pc = "done")

\* the recursion reached its full depth on the chain of three slots, after a
\* candidate had been rejected on the way
SearchTerminatesWitness ==
    /\ Len(stack) = 3
    /\ pc = "bt_call"
    /\ \E k \in 1..Len(stack) :
          Len(stack[k].values) + 1 < Cardinality(domains[stack[k].variable])

\* C5 (ac3 reports its outcome): ac3 returns True when the worklist is
\* exhausted with no domain empty, and False when some domain ends up empty.
Ac3ReportsOutcome ==
    pc = "ac3_returned" =>
        /\ (\A v \in crossword.variables : domains[v] # {}) => ac3_return = "True"
        /\ (\E v \in crossword.variables : domains[v] = {}) => ac3_return = "False"

\* no word of a solution has been pruned from the domain of its variable
PruningSound ==
    \A m \in Solutions(crossword) : \A v \in crossword.variables : m[v] \in domains[v]

\* C6 (AC-3 pruning is sound): every word of every solution stays in its
\* variable's domain through node consistency and every revise step, and when
\* a solution exists ac3 neither empties a domain nor reports unsatisfiable.
Ac3NoFalseNegative ==
    /\ PruningSound
    /\ (pc = "ac3_returned" /\ Solutions(crossword) # {}) =>
          /\ ac3_exit # "emptied"
          /\ ac3_return # "False"

\* C7 (arc consistency after convergence): when ac3, started from all arcs
\* after node consistency, ends with an empty worklist and no empty domain,
\* every word of every domain has an agreeing word in each neighbouring domain.
ArcConsistentAfterAc3 ==
    (/\ pc = "ac3_returned"
     /\ ac3_exit = "exhausted"
     /\ \A v \in crossword.variables : domains[v] # {})
        => ArcConsistent(crossword, domains)

\* ac3 converged on the chain after revise had removed a word that node
\* consistency had left in a domain
ArcConsistentAfterAc3Witness ==
    /\ pc = "ac3_returned"
    /\ ac3_exit = "exhausted"
    /\ Cardinality(crossword.variables) = 3
    /\ \A v \in crossword.variables : domains[v] # {}
    /\ \E v \in crossword.variables : domains[v] # LengthValid(crossword, v)

\* C8 (node consistency): enforce_node_consistency leaves in each domain
\* exactly the vocabulary words whose length is the variable's length.
NodeConsistency ==
    (pc = "ac3" /\ pass = 1) =>
        \A v \in crossword.variables : domains[v] = LengthValid(crossword, v)

\* node consistency removed a shorter word from one domain and a longer word
\* from another, and left both domains non-empty
NodeConsistencyWitness ==
    /\ pc = "ac3"
    /\ pass = 1
    /\ \E v1, v2 \in crossword.variables :
          /\ domains[v1] # {}
          /\ domains[v2] # {}
          /\ \E w \in crossword.words \ domains[v1] : Len(w) < v1.length
          /\ \E w \in crossword.words \ domains[v2] : Len(w) > v2.length

\* C9 as stated (idempotence): a second run of node consistency and ac3,
\* right after a first run, changes no domain.
SecondPassChangesNothing ==
    pass = 2 => domains = first_pass.domains

\* C9 as amended: a second run of node consistency and ac3, right after a
\* first run in which ac3 exhausted its worklist, changes no domain.
SecondPassChangesNothingAfterConvergence ==
    (pass = 2 /\ first_pass.exit = "exhausted") => domains = first_pass.domains

\* the second run has finished after a first run that converged and in which
\* revise had removed words
SecondPassWitness ==
    /\ pass = 2
    /\ pc = "ac3_returned"
    /\ first_pass.exit = "exhausted"
    /\ \E v \in crossword.variables :
          first_pass.domains[v] # LengthValid(crossword, v) /\ first_pass.domains[v] # {}

\* C10 (ac3 outcome checked before the search): when ac3 emptied a domain,
\* solve() reports no solution without ever calling backtrack.
SearchSkippedAfterFailure ==
    ac3_exit = "emptied" =>
        /\ ~searched
        /\ pc \in {"ac3_returned", "done"}
        /\ pc = "done" => result.isNone

\* C11 as stated (determinism): two runs of solve() on the same grid and
\* vocabulary return the same result, whatever the iteration order of the sets.
SameResultTwice ==
    (pc = "done" /\ previous.done) =>
        /\ result.isNone = previous.result.isNone
        /\ Mapping(result.items) = Mapping(previous.result.items)

\* C11 as amended: two runs of solve() on the same grid and vocabulary both
\* return None or both return an assignment, and the same assignment when the
\* puzzle has only one solution.
SameOutcomeTwice ==
    (pc = "done" /\ previous.done) =>
        /\ result.isNone = previous.result.isNone
        /\ Cardinality(Solutions(crossword)) = 1 =>
              Mapping(result.items) = Mapping(previous.result.items)

\* two runs on a puzzle with several solutions ended with different assignments
SameOutcomeTwiceWitness ==
    /\ pc = "done"
    /\ previous.done
    /\ ~result.isNone
    /\ ~previous.result.isNone
    /\ Mapping(result.items) # Mapping(previous.result.items)

\* every word of every domain is as long as its variable
LengthValidDomains ==
    \A v \in crossword.variables : \A word \in domains[v] : Len(word) = v.length

\* C12 (domains shrink monotonically): every step of node consistency, ac3
\* and the search leaves each domain a subset of what it was, and once node
\* consistency has run every domain holds only words of its variable's length.
DomainsShrink ==
    /\ [][(\A v \in crossword.variables : domains'[v] \subseteq domains[v])]_vars
    /\ [](pc # "enforce_node_consistency" => LengthValidDomains)

\* inside ac3, revise has removed a word that node consistency had kept
DomainsShrinkWitness ==
    /\ pc = "ac3_loop"
    /\ \E v \in crossword.variables :
          /\ domains[v] # {}
          /\ domains[v] # LengthValid(crossword, v)

\* C13 (the Domain Store is read-only during search): no step of backtrack,
\* at any depth, on success or on failure, changes self.domains.
SearchKeepsDomains ==
    [][(pc \in {"bt_call", "bt_loop", "bt_return"} => domains' = domains)]_vars

\* a nested call has failed and its caller goes on, with domains of several words
SearchKeepsDomainsWitness ==
    /\ pc = "bt_loop"
    /\ Len(stack) >= 2
    /\ Top.copy_assignment # Top.assignment
    /\ \E v \in crossword.variables : Cardinality(domains[v]) >= 2

\* the assignment gives each variable once, no word twice, and each word from
\* the current domain of its variable
DistinctFromDomains(assignment) ==
    /\ \A a, b \in 1..Len(assignment) :
          a # b => (assignment[a][1] # assignment[b][1] /\ assignment[a][2] # assignment[b][2])
    /\ \A a \in 1..Len(assignment) :
          /\ assignment[a][1] \in crossword.variables
          /\ assignment[a][2] \in domains[assignment[a][1]]

\* C14 (assignment uniqueness): every assignment backtrack is called on,
\* starting from backtrack(dict()), and every assignment it returns maps
\* distinct variables to distinct words taken from the variables' domains.
AssignmentsDistinct ==
    /\ pc = "bt_call" => DistinctFromDomains(call)
    /\ \A k \in 1..Len(stack) : DistinctFromDomains(stack[k].assignment)
    /\ pc = "bt_return" => DistinctFromDomains(ret.items)
    /\ DistinctFromDomains(result.items)

\* backtrack is called on two assigned variables of the same length whose
\* domains share a word
AssignmentsDistinctWitness ==
    /\ pc = "bt_call"
    /\ Len(call) >= 2
    /\ call[1][1].length = call[2][1].length
    /\ domains[call[1][1]] \cap domains[call[2][1]] # {}

\* no length-valid word of x agrees with a length-valid word of y at the overlap
NoAgreeingPair(cw) ==
    \A x \in cw.variables : \A y \in Neighbors(cw, x) :
        \A wx \in LengthValid(cw, x), wy \in LengthValid(cw, y) :
            wx[cw.overlaps[<<x, y>>][1] + 1] # wy[cw.overlaps[<<x, y>>][2] + 1]

\* C15 (crossing variables with no agreeing pair): for two crossing variables
\* whose length-valid words contain no pair agreeing at the overlap cell, ac3
\* ends with an empty domain, which it emptied itself whenever a variable had a
\* length-valid word at all, and solve() returns None.
NoAgreeingPairNoSolution ==
    (TwoCrossingVariables(crossword) /\ NoAgreeingPair(crossword)) =>
        /\ pc \in {"ac3_returned", "bt_call", "bt_loop", "bt_return", "done"} =>
              /\ \E v \in crossword.variables : domains[v] = {}
              /\ (\E v \in crossword.variables : LengthValid(crossword, v) # {})
                    => ac3_exit = "emptied"
        /\ pc # "raised"
        /\ pc = "done" => result.isNone

\* solve() returned None for two crossing variables of different lengths that
\* both had candidate words, none of them agreeing, after ac3 emptied a domain
NoAgreeingPairNoSolutionWitness ==
    /\ pc = "done"
    /\ result.isNone
    /\ ac3_exit = "emptied"
    /\ TwoCrossingVariables(crossword)
    /\ NoAgreeingPair(crossword)
    /\ \A v \in crossword.variables : LengthValid(crossword, v) # {}
    /\ \E v1, v2 \in crossword.variables : v1.length # v2.length

\* two slots for which the vocabulary offers one and the same single word
OneWordForTwoSlots(cw) ==
    \E v1, v2 \in cw.variables :
        /\ v1 # v2
        /\ LengthValid(cw, v1) = LengthValid(cw, v2)
        /\ Cardinality(LengthValid(cw, v1)) = 1

\* the domains of length-valid words
LengthValidAll(cw) == [v \in cw.variables |-> LengthValid(cw, v)]

\* C16 (uniqueness makes a puzzle unsatisfiable): when two slots have only one
\* and the same valid word, solve() returns None; and where every slot has a
\* candidate that fits its crossings, node and arc consistency leave every
\* domain as it was, non-empty, so that it is the search that rejects the puzzle.
UniquenessRejects ==
    OneWordForTwoSlots(crossword) =>
        /\ pc # "raised"
        /\ pc = "done" => result.isNone
        /\ (/\ pc \in {"ac3_returned", "bt_call", "bt_loop", "bt_return", "done"}
            /\ ArcConsistent(crossword, LengthValidAll(crossword))
            /\ \A v \in crossword.variables : LengthValid(crossword, v) # {})
              => /\ ac3_exit = "exhausted"
                 /\ \A v \in crossword.variables :
                       domains[v] = LengthValid(crossword, v)

\* solve() returned None for two slots sharing their only word, after ac3
\* converged with both domains non-empty and the search was run
UniquenessRejectsWitness ==
    /\ pc = "done"
    /\ result.isNone
    /\ searched
    /\ ac3_exit = "exhausted"
    /\ OneWordForTwoSlots(crossword)
    /\ Cardinality(crossword.variables) = 2
    /\ \A v \in crossword.variables : domains[v] # {}

\* C19 (revise result): for x and y with a recorded overlap (i, j), after
\* revise(x, y) the domain of x holds exactly the words it held before that
\* agree at the overlap with some word of y's domain, and revise returns True
\* if and only if a word was removed; without an overlap revise returns False
\* and removes nothing. No other domain changes.
ReviseResult ==
    revision.called =>
        LET x == revision.x
            y == revision.y
            before == revision.before
            overlap == crossword.overlaps[<<x, y>>]
        IN  /\ overlap # NoOverlap =>
                  /\ domains[x] = {w \in before[x] :
                                     \E w2 \in before[y] :
                                        w[overlap[1] + 1] = w2[overlap[2] + 1]}
                  /\ revision.returned <=> domains[x] # before[x]
            /\ overlap = NoOverlap =>
                  /\ ~revision.returned
                  /\ domains[x] = before[x]
            /\ \A v \in crossword.variables \ {x} : domains[v] = before[v]

\* revise removed some but not all words of x and returned True
ReviseResultWitness ==
    /\ revision.called
    /\ revision.returned
    /\ crossword.overlaps[<<revision.x, revision.y>>] # NoOverlap
    /\ domains[revision.x] # {}
    /\ domains[revision.x] # revision.before[revision.x]

\* the arcs at the end of the new worklist that were not in the old one
Appended(old, new) ==
    {new[k] : k \in Len(old)..Len(new)}

\* C20 (AC-3 re-enqueue rule): whenever revise(x, y) removed a word and the
\* domain of x is still non-empty, the arcs appended to the worklist are
\* exactly (z, x) for each z in neighbors(x) \ {y}; (y, x) is not re-enqueued.
ReEnqueueExceptY ==
    [][(/\ pc = "ac3_loop"
        /\ arcs # <<>>
        /\ domains'[arcs[1][1]] # domains[arcs[1][1]]
        /\ domains'[arcs[1][1]] # {})
          => LET x == arcs[1][1]
                 y == arcs[1][2]
                 others == Neighbors(crossword, x) \ {y}
             IN  /\ Len(arcs') = Len(arcs) - 1 + Cardinality(others)
                 /\ Appended(arcs, arcs') = {<<z, x>> : z \in others}]_vars

\* C17 (Minesweeper AI knowledge is sound): after any sequence of
\* add_knowledge(cell, count) calls for cells that are no mines, with their
\* true counts, every cell of ai.mines is a mine, no cell of ai.safes is one,
\* ai.mines and ai.safes are disjoint, and every sentence of ai.knowledge is
\* true of the board: exactly count of its cells are mines, and
\* 0 <= count <= number of cells.
KnowledgeSound ==
    /\ ai.mines \subseteq game.mines
    /\ ai.safes \cap game.mines = {}
    /\ ai.mines \cap ai.safes = {}
    /\ \A k \in 1..Len(ai.knowledge) :
          /\ Cardinality(ai.knowledge[k].cells \cap game.mines) = ai.knowledge[k].count
          /\ 0 <= ai.knowledge[k].count
          /\ ai.knowledge[k].count <= Cardinality(ai.knowledge[k].cells)

\* after two calls the AI has concluded a mine, and a safe cell it was not shown
KnowledgeSoundWitness ==
    /\ calls >= 2
    /\ ai.mines # {}
    /\ ai.safes \ ai.moves_made # {}

\* C18 (tic-tac-toe minimax is optimal): on every non-terminal board reachable
\* from initial_state() by legal moves, minimax(board) returns a legal action
\* whose resulting board has the game-theoretic best value for player(board),
\* maximal for X and minimal for O; on every terminal board it returns None.
MinimaxOptimal ==
    move.asked =>
        IF Over(board) THEN move.isNone
        ELSE /\ ~move.isNone
             /\ move.action \in Marks(board, EMPTY)
             /\ Player(board) = ToMove(board)
             /\ LET values == {GameValue(n) : n \in Successors(board)}
                IN  GameValue(Result(board, move.action)) =
                        IF Player(board) = X THEN Max(values) ELSE Min(values)

\* minimax answered on a board where X is to move and the legal moves lead to
\* boards of different values
MinimaxOptimalWitness ==
    /\ move.asked
    /\ ~move.isNone
    /\ Player(board) = X
    /\ \E n \in Successors(board) :
          GameValue(n) # GameValue(Result(board, move.action))

\* C21 (AC-3 hard short-circuit): as soon as a revise(x, y) step removes the
\* last word of x's domain, ac3 returns unsatisfiable (False) at once; after
\* that no arc is popped or revised and no domain is modified.
HardShortCircuit ==
    /\ [][((/\ pc = "ac3_loop"
            /\ arcs # <<>>
            /\ domains[arcs[1][1]] # {}
            /\ domains'[arcs[1][1]] = {})
              => /\ pc' = "ac3_returned"
                 /\ ac3_exit' = "emptied"
                 /\ ac3_return' = "False"
                 /\ arcs' = Tail(arcs)
                 /\ \A v \in crossword.variables \ {arcs[1][1]} :
                       domains'[v] = domains[v])]_vars
    /\ [][(ac3_exit = "emptied" =>
              /\ arcs' = arcs
              /\ domains' = domains
              /\ ac3_return' = ac3_return
              /\ pc' # "ac3_loop")]_vars

\* solve() went on after ac3 emptied a domain, with arcs still on the worklist
\* and words left in another domain
HardShortCircuitWitness ==
    /\ pc = "done"
    /\ ac3_exit = "emptied"
    /\ arcs # <<>>
    /\ \E v \in crossword.variables : domains[v] # {}
    /\ Cardinality(crossword.variables) = 3

\* C22 (AC-3 result is independent of worklist order): whatever arc is taken
\* from the worklist at each step, a run of ac3 from the node-consistent
\* domains of a crossword empties a domain exactly when the largest
\* arc-consistent domains have lost all the words of some variable, and
\* otherwise converges to those domains; both depend on the crossword alone.
OrderIndependent ==
    pc = "ac3_returned" =>
        LET largest == LargestArcConsistent(crossword, LengthValidAll(crossword))
            emptied == \E v \in crossword.variables :
                          largest[v] = {} /\ LengthValid(crossword, v) # {}
        IN  /\ ac3_exit = "emptied" <=> emptied
            /\ ac3_exit = "exhausted" => domains = largest

\* ac3 converged on the chain of three slots after removing words from the
\* domains of two of them, all domains still holding a word
OrderIndependentWitness ==
    /\ pc = "ac3_returned"
    /\ ac3_exit = "exhausted"
    /\ Cardinality(crossword.variables) = 3
    /\ \A v \in crossword.variables : domains[v] # {}
    /\ \E v1, v2 \in crossword.variables :
          /\ v1 # v2
          /\ domains[v1] # LengthValid(crossword, v1)
          /\ domains[v2] # LengthValid(crossword, v2)

\* the variables left unassigned by an assignment
Unassigned(assignment) == crossword.variables \ Keys(assignment)

\* C23 (variable selection, MRV then degree): the variable that
\* select_unassigned_variable returned for the assignment of a backtrack call
\* is not in that assignment, no unassigned variable has a strictly smaller
\* domain, and among the unassigned variables with a domain of the same size
\* none has strictly more neighbours.
MrvThenDegree ==
    \A k \in 1..Len(stack) :
        LET v == stack[k].variable
            unassigned == Unassigned(stack[k].assignment)
        IN  /\ v \in unassigned
            /\ \A u \in unassigned :
                  /\ Cardinality(domains[u]) >= Cardinality(domains[v])
                  /\ Cardinality(domains[u]) = Cardinality(domains[v]) =>
                        Cardinality(Neighbors(crossword, u))
                            <= Cardinality(Neighbors(crossword, v))

\* a call selected its variable against one with a larger domain, and a call
\* selected the variable with more neighbours against one with a domain of
\* the same size
MrvThenDegreeWitness ==
    /\ \E k \in 1..Len(stack) : \E u \in Unassigned(stack[k].assignment) :
          Cardinality(domains[u]) > Cardinality(domains[stack[k].variable])
    /\ \E k \in 1..Len(stack) : \E u \in Unassigned(stack[k].assignment) :
          /\ Cardinality(domains[u]) = Cardinality(domains[stack[k].variable])
          /\ Cardinality(Neighbors(crossword, u))
                < Cardinality(Neighbors(crossword, stack[k].variable))

\* the (neighbour, word) pairs a candidate rules out: the words in the domains
\* of the neighbours of var outside the assignment that disagree with the
\* candidate at the overlap cell
RuledOut(var, assignment, candidate) ==
    {p \in UNION {{<<n, w>> : w \in domains[n]} :
                     n \in Neighbors(crossword, var) \ Keys(assignment)} :
        candidate[crossword.overlaps[<<var, p[1]>>][1] + 1]
            # p[2][crossword.overlaps[<<var, p[1]>>][2] + 1]}

\* C24 (value ordering, LCV): the list order_domain_values(var, assignment)
\* returned to a backtrack call holds every word of domain(var) exactly once,
\* in non-decreasing order of the number of (neighbour, word) pairs the word
\* rules out among the neighbours that are not in the assignment; assigned
\* neighbours count for nothing and values that rule out nothing come first.
LeastConstrainingFirst ==
    \A k \in 1..Len(stack) :
        LET var == stack[k].variable
            assignment == stack[k].assignment
            ordered == stack[k].ordered
        IN  /\ Len(ordered) = Cardinality(domains[var])
            /\ {ordered[a] : a \in 1..Len(ordered)} = domains[var]
            /\ \A a, b \in 1..Len(ordered) :
                  a < b => Cardinality(RuledOut(var, assignment, ordered[a]))
                              <= Cardinality(RuledOut(var, assignment, ordered[b]))

\* a call ordered candidates that rule out different numbers of words, for a
\* variable with one neighbour in the assignment and one outside it
LeastConstrainingFirstWitness ==
    \E k \in 1..Len(stack) :
        LET var == stack[k].variable
            assignment == stack[k].assignment
            ordered == stack[k].ordered
        IN  /\ Neighbors(crossword, var) \cap Keys(assignment) # {}
            /\ Neighbors(crossword, var) \ Keys(assignment) # {}
            /\ Len(ordered) >= 2
            /\ Cardinality(RuledOut(var, assignment, ordered[1]))
                  < Cardinality(RuledOut(var, assignment, ordered[Len(ordered)]))

\* C25 (global consistency check): consistent(assignment) returns True if and
\* only if the assigned words are pairwise distinct, every assigned word is as
\* long as its variable, and every two neighbouring variables that are both
\* assigned agree at their overlap cell; a neighbour outside the assignment
\* never makes the result False.
ConsistentIff ==
    checked.called =>
        LET assignment == checked.assignment
            items == 1..Len(assignment)
        IN  checked.returned = "True"
               <=> /\ \A a, b \in items : a # b => assignment[a][2] # assignment[b][2]
                   /\ \A a \in items : Len(assignment[a][2]) = assignment[a][1].length
                   /\ \A a, b \in items :
                         LET overlap == crossword.overlaps[<<assignment[a][1],
                                                            assignment[b][1]>>]
                         IN  (a # b /\ overlap # NoOverlap)
                                => assignment[a][2][overlap[1] + 1]
                                      = assignment[b][2][overlap[2] + 1]

\* consistent returned True for two crossing words while a neighbour of one of
\* them had no word
ConsistentIffWitness ==
    /\ checked.called
    /\ checked.returned = "True"
    /\ \E a, b \in 1..Len(checked.assignment) :
          /\ a # b
          /\ crossword.overlaps[<<checked.assignment[a][1],
                                  checked.assignment[b][1]>>] # NoOverlap
    /\ \E a \in 1..Len(checked.assignment) :
          Neighbors(crossword, checked.assignment[a][1])
              \ Keys(checked.assignment) # {}

\* the candidates a backtrack call has tried are the first ones of the list
\* order_domain_values gave it
TriedInOrder ==
    \A k \in 1..Len(stack) :
        /\ Len(stack[k].tried) <= Len(stack[k].ordered)
        /\ stack[k].tried = SubSeq(stack[k].ordered, 1, Len(stack[k].tried))

\* one step of the innermost backtrack call
FirstSolutionWinsStep ==
    LET n == Len(stack)
        frame == stack[n]
        tries == Len(stack') = n /\ Len(stack'[n].tried) = Len(frame.tried) + 1
        returns == Len(stack') = n - 1
    IN  (n > 0 /\ pc \in {"bt_loop", "bt_return"}) =>
           \* a recursive call returned an assignment: it is returned as it is
           /\ (pc = "bt_return" /\ ~ret.isNone)
                 => returns /\ ret' = ret /\ stack' = SubSeq(stack, 1, n - 1)
           \* a recursive call returned None: back to the loop, nothing tried yet
           /\ (pc = "bt_return" /\ ret.isNone)
                 => /\ pc' = "bt_loop"
                    /\ Len(stack') = n
                    /\ stack'[n].tried = frame.tried
                    /\ stack'[n].assignment = frame.assignment
           \* at the head of the loop with candidates left: the next one is
           \* tried on the assignment the call was given
           /\ (pc = "bt_loop" /\ frame.tried # frame.ordered)
                 => /\ tries
                    /\ stack'[n].tried
                          = Append(frame.tried, frame.ordered[Len(frame.tried) + 1])
                    /\ stack'[n].copy_assignment
                          = Extend(frame.assignment, frame.variable,
                                   frame.ordered[Len(frame.tried) + 1])
                    /\ pc' = "bt_call" => call' = stack'[n].copy_assignment
           \* None is returned only when every candidate was tried
           /\ (returns /\ ret'.isNone) => frame.tried = frame.ordered
           /\ (pc = "bt_loop" /\ frame.tried = frame.ordered)
                 => returns /\ ret'.isNone

\* C26 (first solution wins, failure continues): a backtrack call tries the
\* candidates of its variable in the order order_domain_values gave; when a
\* recursive call returns an assignment, that assignment is returned and no
\* later candidate is tried; after an inconsistent candidate or a recursive
\* call that returned None the next candidate is tried from the assignment the
\* call was given; None is returned only when every candidate was tried.
FirstSolutionWins == [](TriedInOrder) /\ [][FirstSolutionWinsStep]_vars

\* a call returns the assignment of its recursive call on its second
\* candidate, after the first one failed, and leaves a third one untried
FirstSolutionWinsWitness ==
    /\ pc = "bt_return"
    /\ ~ret.isNone
    /\ stack # <<>>
    /\ Len(Top.tried) >= 2
    /\ Top.tried # Top.ordered

\* the mapping a backtrack call was given is the mapping its caller holds:
\* dict() for the outermost call, the caller's extended copy for the others
GivenIsCallersMapping ==
    /\ stack # <<>> => stack[1].assignment = <<>>
    /\ \A k \in 1..(Len(stack) - 1) : stack[k + 1].assignment = stack[k].copy_assignment

\* no step changes the mapping an active call was given, and a return leaves
\* the caller's mappings as they were
GivenMappingKept ==
    /\ \A k \in 1..Len(stack) :
          k <= Len(stack') => stack'[k].assignment = stack[k].assignment
    /\ \A k \in 1..(Len(stack) - 1) :
          k <= Len(stack') => stack'[k].copy_assignment = stack[k].copy_assignment

\* C27 (copy-on-branch frame): backtrack(assignment) never changes the mapping
\* its caller passed in; every tentative extension is made on a copy, so when
\* the call returns, with an assignment or with None, the caller's mapping
\* holds exactly the entries it held at the call.
CopyOnBranch == [](GivenIsCallersMapping) /\ [][GivenMappingKept]_vars

\* a recursive call has extended its copy with its last candidate and is about
\* to return to a caller that passed it a non-empty mapping
CopyOnBranchWitness ==
    /\ pc = "bt_loop"
    /\ Len(stack) >= 2
    /\ Top.tried = Top.ordered
    /\ Top.tried # <<>>
    /\ Top.assignment # <<>>
    /\ Top.copy_assignment # Top.assignment

\* one iteration of the worklist loop: the first arc is popped, no domain
\* grows, and arcs are appended only when the domain of the popped arc's first
\* variable lost a word
WorklistProgress ==
    (pc = "ac3_loop" /\ arcs # <<>>) =>
        /\ \A v \in crossword.variables : domains'[v] \subseteq domains[v]
        /\ Len(arcs') >= Len(arcs) - 1
        /\ SubSeq(arcs', 1, Len(arcs) - 1) = Tail(arcs)
        /\ Len(arcs') > Len(arcs) - 1
              => /\ domains'[arcs[1][1]] # domains[arcs[1][1]]
                 /\ \A k \in Len(arcs)..Len(arcs') : arcs'[k][2] = arcs[1][1]

\* C28 (AC-3 terminates): for every grid, vocabulary and initial arc list the
\* worklist loop of ac3 ends, with the worklist empty or a domain emptied,
\* after finitely many pops: arcs are appended only after a revise that removed
\* a word and domains never grow, even though the arc (y, x) is among the arcs
\* put back.
Ac3Terminates ==
    /\ [][WorklistProgress]_vars
    /\ (pc = "ac3_loop") ~> (pc = "ac3_returned" /\ ac3_exit \in {"emptied", "exhausted"})

\* on a grid of two slots a revision has put the arc (y, x) back on a worklist
\* that still held it
Ac3TerminatesWitness ==
    /\ pc = "ac3_loop"
    /\ Cardinality(crossword.variables) = 2
    /\ \E a, b \in 1..Len(arcs) : a < b /\ arcs[a] = arcs[b]
    /\ \E v \in crossword.variables : domains[v] # LengthValid(crossword, v)

\* C29 (empty domain forces failure at the search root): when some domain is
\* empty at the start of backtrack(dict()), select_unassigned_variable picks a
\* variable with an empty domain, no candidate is tried, no recursive call is
\* made and backtrack returns None, so solve() returns None although it ignores
\* what ac3 returned.
EmptyDomainFailsAtRoot ==
    (/\ pc \in {"bt_call", "bt_loop", "bt_return", "done"}
     /\ \E v \in crossword.variables : domains[v] = {})
        => /\ Len(stack) <= 1
           /\ \A k \in 1..Len(stack) :
                 /\ domains[stack[k].variable] = {}
                 /\ stack[k].assignment = <<>>
                 /\ stack[k].ordered = <<>>
                 /\ stack[k].tried = <<>>
           /\ pc = "bt_call" => call = <<>> /\ stack = <<>>
           /\ pc \in {"bt_return", "done"} => ret.isNone /\ stack = <<>>
           /\ pc = "done" => result.isNone

\* solve() returned None after ac3 had stopped at an emptied domain while
\* other variables still had words and arcs were left on the worklist
EmptyDomainFailsAtRootWitness ==
    /\ pc = "done"
    /\ searched
    /\ result.isNone
    /\ ac3_exit = "emptied"
    /\ arcs # <<>>
    /\ Cardinality(crossword.variables) = 3
    /\ \E v \in crossword.variables : domains[v] = {}
    /\ \E v \in crossword.variables : Cardinality(domains[v]) >= 2

====
